---------------------------- MODULE Spec2Model ----------------------------
(***************************************************************************)
(* Model of src/main.py: the Slack question-answering bot.                 *)
(*                                                                         *)
(*   - send_long_message: the splitting of a long text into parts          *)
(*     (specification SpecChunk, one behaviour per input text);            *)
(*   - handle_message: one request from the inbound event to the last      *)
(*     outbound call, every external call succeeding or failing            *)
(*     (specification Spec, one request; SpecConc, two requests in         *)
(*     flight at once).                                                    *)
(*                                                                         *)
(* Texts are sequences of one-character strings.  "." stands for the       *)
(* full-width full stop of the source and "\n" for the newline.            *)
(***************************************************************************)
EXTENDS Integers, Sequences, FiniteSets, TLC

VARIABLES
    \* ---- send_long_message run on its own (SpecChunk)
    text,            \* the argument text
    current_pos,     \* the loop's current_pos
    parts,           \* the loop's parts list (content slices)
    posted,          \* the texts handed to chat_postMessage, in order
    cpc,             \* position in send_long_message
    \* ---- handle_message, per request
    pc,              \* position of the request's coroutine
    event,           \* the inbound event
    user_query,      \* line 125/127
    thread_ts,       \* line 133
    thinking_message,\* ts of the placeholder returned by say (line 135)
    topic,           \* normalized classifier answer (line 150)
    reply_text,      \* line 178/198
    sendq,           \* texts send_long_message still has to post
    sent,            \* number of chat_postMessage calls send_long_message issued
    inflight,        \* posts issued whose await has not returned
    exc,             \* the exception raised in the request, or None
    generative_model,\* the module-level model handle (lines 21-26)
    \* ---- the chat platform and the record of outbound calls
    messages,        \* messages on the platform, in arrival order
    calls            \* every outbound call issued, in order

chunkVars == <<text, current_pos, parts, posted, cpc>>
reqVars   == <<pc, event, user_query, thread_ts, thinking_message, topic,
               reply_text, sendq, sent, inflight, exc>>
envVars   == <<generative_model, messages, calls>>
vars      == <<text, current_pos, parts, posted, cpc,
               pc, event, user_query, thread_ts, thinking_message, topic,
               reply_text, sendq, sent, inflight, exc,
               generative_model, messages, calls>>

None == "None"

Min(a, b) == IF a < b THEN a ELSE b
Max(S) == CHOOSE x \in S : \A y \in S : y <= x

(***************************************************************************)
(* Bounds.  limit is 3000 in the source (line 69); the model scales it     *)
(* down so that every text up to MaxLen characters can be enumerated.      *)
(***************************************************************************)
limit == 5
MaxLen == 9

FULLSTOP == "."
NEWLINE == "\n"
Chars == {"x", FULLSTOP, NEWLINE}

RECURSIVE SeqsOfLen(_)
SeqsOfLen(n) ==
    IF n = 0 THEN {<<>>}
    ELSE {Append(s, c) : s \in SeqsOfLen(n - 1), c \in Chars}

Texts == UNION {SeqsOfLen(n) : n \in 0..MaxLen}

(***************************************************************************)
(* Python string primitives used by send_long_message.  Positions are      *)
(* 0-based as in the source; text[i] of the source is text[i + 1] here.    *)
(***************************************************************************)
\* str.rfind(ch, start, end): the highest index in [start, end) holding ch,
\* end clipped to the length; -1 when there is none.
rfind(t, ch, start, end) ==
    LET hi == Min(end, Len(t))
        found == {i \in start..(hi - 1) : t[i + 1] = ch}
    IN  IF found = {} THEN -1 ELSE Max(found)

\* t[a:b] for 0 <= a, the end clipped to the length.
Slice(t, a, b) == SubSeq(t, a + 1, Min(b, Len(t)))

\* Lines 77-79: the position found by the two searches, -1 when neither
\* finds; a mutant that searches the newline first.
found_pos_newline_first(t, cp) ==
    LET s == rfind(t, NEWLINE, cp, cp + limit)
    IN  IF s = -1 THEN rfind(t, FULLSTOP, cp, cp + limit) ELSE s

found_pos(t, cp) ==
    LET s == rfind(t, FULLSTOP, cp, cp + limit)
    IN  IF s = -1 THEN rfind(t, NEWLINE, cp, cp + limit) ELSE s

\* Lines 77-82: split_pos of one loop iteration; a mutant without the
\* hard-cut fallback of lines 81-82.
split_pos_without_fallback(t, cp) == found_pos(t, cp)

split_pos(t, cp) ==
    LET s == found_pos(t, cp)
    IN  IF s = -1 \/ s <= cp THEN cp + limit ELSE s

\* Line 84: the slice appended to parts; a mutant that leaves the split
\* character out of the part.
part_slice_exclusive(t, cp) == Slice(t, cp, split_pos(t, cp))

part_slice(t, cp) == Slice(t, cp, split_pos(t, cp) + 1)

\* Line 85.
next_pos(t, cp) == split_pos(t, cp) + 1

\* Lines 73-85 as a function: the parts list the loop builds from cp on.
RECURSIVE parts_from(_, _)
parts_from(t, cp) ==
    IF cp < Len(t)
    THEN <<part_slice(t, cp)>> \o parts_from(t, next_pos(t, cp))
    ELSE <<>>

\* Line 88: part_text, the header "*i/n*" followed by the part.
part_text(i, n, part) == [kind |-> "reply", header |-> <<i, n>>, body |-> part]

\* Line 71: a short text is posted as it is.
plain_text(t) == [kind |-> "reply", header |-> <<>>, body |-> t]

\* Line 70: the text fits one message; a mutant that sends a text of
\* exactly limit characters into the loop.
is_short_strict(t) == Len(t) < limit

is_short(t) == Len(t) <= limit

\* Lines 69-89: the texts send_long_message posts, in order.
post_texts(t) ==
    IF is_short(t)
    THEN <<plain_text(t)>>
    ELSE LET ps == parts_from(t, 0)
         IN  [i \in 1..Len(ps) |-> part_text(i, Len(ps), ps[i])]

RECURSIVE Concat(_)
Concat(ss) == IF ss = <<>> THEN <<>> ELSE Head(ss) \o Concat(Tail(ss))

Bodies(ps) == [i \in 1..Len(ps) |-> ps[i].body]

(***************************************************************************)
(* send_long_message run on its own, one loop iteration per step, every    *)
(* chat_postMessage succeeding.                                            *)
(***************************************************************************)
ChunkInit ==
    /\ text \in Texts
    /\ current_pos = 0
    /\ parts = <<>>
    /\ posted = <<>>
    /\ cpc = "start"

\* Lines 69-74: the short text is posted and the function returns; a longer
\* one enters the loop.
ChunkEnter ==
    /\ cpc = "start"
    /\ IF is_short(text)
       THEN /\ posted' = <<plain_text(text)>>
            /\ cpc' = "done"
       ELSE /\ posted' = posted
            /\ cpc' = "loop"
    /\ UNCHANGED <<text, current_pos, parts>>

\* Lines 75-85: one iteration of the while loop.
ChunkStep ==
    /\ cpc = "loop"
    /\ current_pos < Len(text)
    /\ parts' = Append(parts, part_slice(text, current_pos))
    /\ current_pos' = next_pos(text, current_pos)
    /\ UNCHANGED <<text, posted, cpc>>

\* Lines 87-89: the loop has ended; every part is posted under its header.
ChunkPost ==
    /\ cpc = "loop"
    /\ ~(current_pos < Len(text))
    /\ posted' = [i \in 1..Len(parts) |-> part_text(i, Len(parts), parts[i])]
    /\ cpc' = "done"
    /\ UNCHANGED <<text, current_pos, parts>>

(***************************************************************************)
(* handle_message: data.                                                   *)
(***************************************************************************)
Reqs == {"r1", "r2"}

MENTION == "<@U0BOT>"
SPACE == " "
Whitespace == {SPACE, NEWLINE}

\* str.strip(): leading and trailing whitespace removed.
RECURSIVE lstrip(_)
lstrip(s) ==
    IF s # <<>> /\ Head(s) \in Whitespace THEN lstrip(Tail(s)) ELSE s

RECURSIVE rstrip(_)
rstrip(s) ==
    IF s # <<>> /\ s[Len(s)] \in Whitespace
    THEN rstrip(SubSeq(s, 1, Len(s) - 1))
    ELSE s

strip(s) == rstrip(lstrip(s))

\* str.replace(ch, ""): every occurrence of ch removed.
remove(s, ch) == SelectSeq(s, LAMBDA c : c # ch)

\* Lines 30-42, two of the eleven entries.
DOCUMENTS_INFO ==
    << [keyword |-> <<"ze", "mi">>, filename |-> "zemi_unei.txt"],
       [keyword |-> <<"Python", "kyozai">>, filename |-> "kyouzai_python.txt"] >>

\* The message identifier of the event of request r.
TsOf(r) == IF r = "r1" THEN "1700.0001" ELSE "1700.0002"

EventTexts ==
    { <<>>, <<SPACE>>, <<MENTION>>, <<MENTION, SPACE>>, <<"q">>,
      <<MENTION, SPACE, "q">>, <<SPACE, "q", NEWLINE>>, <<"q", SPACE, MENTION>> }

\* The inbound events of request r: every kind, channel kind, author,
\* text and thread.
Events(r) ==
    { [type |-> ty, channel_type |-> ct, bot_id |-> b, text |-> tx,
       ts |-> TsOf(r), thread_ts |-> th,
       channel |-> IF ct = "im" THEN "D1" ELSE "C1"] :
        ty \in {"app_mention", "message"}, ct \in {"im", "channel", ""},
        b \in {None, "B0BOT"}, tx \in EventTexts, th \in {None, "1600.0000"} }

\* Two accepted events per request, for the runs with two requests in flight.
ConcEvents(r) ==
    { e \in Events(r) :
        /\ e.bot_id = None
        /\ e.text = <<MENTION, SPACE, "q">>
        /\ \/ e.type = "message" /\ e.channel_type = "im" /\ e.thread_ts # None
           \/ e.type = "app_mention" /\ e.channel_type = "" }

\* Message texts.  body holds the variable part of the text.
Msg(kind, body) == [kind |-> kind, header |-> <<>>, body |-> body]
THINKING == Msg("thinking", <<>>)                  \* line 135
reading_text(file) == Msg("reading", <<file>>)     \* line 159
NODOC == Msg("nodoc", <<>>)                        \* line 185
\* Line 205, with a mutant that leaves the exception out of the text.
error_text_without_detail(e) == Msg("error", <<>>)

error_text(e) == Msg("error", <<e>>)

\* What get_gemini_response returns without a generated text: line 52 and
\* line 65 (the latter embeds the failure detail).
NO_KEY_TEXT == <<"NO_API_KEY", FULLSTOP>>
AI_ERROR_TEXT == <<"AI_ERROR", FULLSTOP, "(e)">>

\* Answers of the model to the classification prompt.
RawTopics ==
    { <<"ze", "mi">>,
      <<"\"", "ze", "mi", "\"">>,
      <<SPACE, "*", "ze", "mi", "*", FULLSTOP, NEWLINE>>,
      <<"\"", SPACE, "ze", "mi", SPACE, "\"">>,
      <<"ze">>,
      <<"Python", "kyozai">>,
      <<"ippan", "chishiki">> }

Xs(n) == [i \in 1..n |-> "x"]

\* Answers of the model to the grounded and the fallback prompt.
ReplyBodies ==
    { <<"x", FULLSTOP>>,
      Xs(limit),
      Xs(limit + 1),
      <<"x", FULLSTOP>> \o Xs(limit),
      <<"x", FULLSTOP, "x", NEWLINE>> \o Xs(limit) }

\* Lines 49-65: the values get_gemini_response can return when the model,
\* if configured, can answer with any of responses or fail.
get_gemini_response(gm, responses) ==
    IF gm = None THEN {NO_KEY_TEXT} ELSE responses \cup {AI_ERROR_TEXT}

\* Line 150.
normalize_topic(raw) ==
    remove(remove(remove(remove(strip(raw), "'"), "\""), FULLSTOP), "*")

\* Line 152: index of the first catalog entry whose keyword equals t, 0 for
\* None; a mutant whose default is the first entry.
selected_doc_info_default_first(t) ==
    LET m == {i \in 1..Len(DOCUMENTS_INFO) : DOCUMENTS_INFO[i].keyword = t}
    IN  IF m = {} THEN 1 ELSE CHOOSE i \in m : \A j \in m : i <= j

selected_doc_info(t) ==
    LET m == {i \in 1..Len(DOCUMENTS_INFO) : DOCUMENTS_INFO[i].keyword = t}
    IN  IF m = {} THEN 0 ELSE CHOOSE i \in m : \A j \in m : i <= j

\* Line 116, with a mutant that lets the bot's own messages through.
is_bot_event_unchecked(ev) == FALSE

is_bot_event(ev) == ev.bot_id # None

\* Line 122, with a mutant that lets every event shape through.
accepted_origin_any(ev) == TRUE

accepted_origin(ev) == ev.channel_type = "im" \/ ev.type = "app_mention"

\* Lines 124-127, with a mutant that does not trim the text.
extract_query_untrimmed(ev) ==
    IF ev.type = "app_mention" THEN remove(ev.text, MENTION) ELSE ev.text

extract_query(ev) ==
    IF ev.type = "app_mention"
    THEN strip(remove(ev.text, MENTION))
    ELSE strip(ev.text)

\* Line 133, with a mutant that always anchors to the event's own ts.
thread_of_own_ts(ev) == ev.ts

thread_of(ev) == IF ev.thread_ts # None THEN ev.thread_ts ELSE ev.ts

\* The platform: chat_postMessage / say, chat_update, chat_delete.
slack_post(ms, r, channel, thread, txt) ==
    Append(ms, [req |-> r, channel |-> channel, thread_ts |-> thread,
                text |-> txt, deleted |-> FALSE])
slack_update(ms, id, txt) == [ms EXCEPT ![id].text = txt]
slack_delete(ms, id) == [ms EXCEPT ![id].deleted = TRUE]

\* One outbound call, as recorded in calls.
Call(op, channel, thread, msg, txt) ==
    [op |-> op, channel |-> channel, thread |-> thread, msg |-> msg, text |-> txt]
GenerateCall(prompt) == Call("generate", None, None, 0, Msg(prompt, <<>>))
\* Lines 61-62 for the prompt of lines 140-147, recorded with the answer
\* of the model.
ClassifyCall(raw) == Call("generate", None, None, 0, Msg("classification", raw))
ReadCall(file) == Call("read", None, None, 0, Msg("document", <<file>>))

\* Lines 162 and 202: read_text returns and the handler goes on to the
\* generation, or raises into the except block; a mutant that swallows the
\* failure and goes on.
after_read_ignoring_failure(readok) == "generate"

after_read(readok) == IF readok THEN "generate" ELSE "error_update"

\* Lines 179 and 200: how the answer is delivered on the matched and on the
\* fallback branch; a mutant that updates the placeholder on both.
delivering_update_only(matched) == "final_update"

delivering(matched) == IF matched THEN "delete" ELSE "final_update"

\* Lines 164 and 188: the prompt the answer is generated from; a mutant
\* that always builds the grounded prompt.
answer_prompt_always_grounded(matched) == "grounded"

answer_prompt(matched) == IF matched THEN "grounded" ELSE "fallback"

Log(r, cs) == calls' = [calls EXCEPT ![r] = calls[r] \o cs]
Goto(r, l) == pc' = [pc EXCEPT ![r] = l]
Raise(r, e) == exc' = [exc EXCEPT ![r] = e]

(***************************************************************************)
(* handle_message: one action per stretch of code between two awaits.      *)
(* The action that completes an await has the call's effect on the         *)
(* platform, succeeding or raising, and runs the code up to the next       *)
(* await.                                                                  *)
(***************************************************************************)
ChunkOff ==
    /\ text = <<>>
    /\ current_pos = 0
    /\ parts = <<>>
    /\ posted = <<>>
    /\ cpc = "off"

ReqInit ==
    /\ pc = [r \in Reqs |-> "idle"]
    /\ event = [r \in Reqs |-> None]
    /\ user_query = [r \in Reqs |-> <<>>]
    /\ thread_ts = [r \in Reqs |-> None]
    /\ thinking_message = [r \in Reqs |-> 0]
    /\ topic = [r \in Reqs |-> <<>>]
    /\ reply_text = [r \in Reqs |-> <<>>]
    /\ sendq = [r \in Reqs |-> <<>>]
    /\ sent = [r \in Reqs |-> 0]
    /\ inflight = [r \in Reqs |-> {}]
    /\ exc = [r \in Reqs |-> None]
    /\ messages = <<>>
    /\ calls = [r \in Reqs |-> <<>>]

\* Lines 113-135: the event arrives; it is dropped, or the handler runs up
\* to the await of say.
Receive(r, ev) ==
    /\ pc[r] = "idle"
    /\ event' = [event EXCEPT ![r] = ev]
    /\ IF is_bot_event(ev) \/ ~accepted_origin(ev) \/ extract_query(ev) = <<>>
       THEN /\ Goto(r, "returned")
            /\ UNCHANGED <<user_query, thread_ts>>
       ELSE /\ user_query' = [user_query EXCEPT ![r] = extract_query(ev)]
            /\ thread_ts' = [thread_ts EXCEPT ![r] = thread_of(ev)]
            /\ Goto(r, "say")
    /\ UNCHANGED <<thinking_message, topic, reply_text, sendq, sent, inflight,
                   exc, generative_model, messages, calls>>
    /\ UNCHANGED chunkVars

\* Line 135: say returns the placeholder, or raises outside the try block.
Say(r) ==
    /\ pc[r] = "say"
    /\ Log(r, <<Call("post", event[r].channel, thread_ts[r], 0, THINKING)>>)
    /\ \E ok \in BOOLEAN :
        IF ok
        THEN /\ messages' = slack_post(messages, r, event[r].channel,
                                       thread_ts[r], THINKING)
             /\ thinking_message' =
                    [thinking_message EXCEPT ![r] = Len(messages) + 1]
             /\ Goto(r, "classify")
             /\ UNCHANGED exc
        ELSE /\ Raise(r, "say_failed")
             /\ Goto(r, "raised")
             /\ UNCHANGED <<messages, thinking_message>>
    /\ UNCHANGED <<event, user_query, thread_ts, topic, reply_text, sendq, sent,
                   inflight, generative_model>>
    /\ UNCHANGED chunkVars

\* Lines 139-152: the classification call and the normalization of its answer.
Classify(r, raw) ==
    /\ pc[r] = "classify"
    /\ raw \in get_gemini_response(generative_model, RawTopics)
    /\ topic' = [topic EXCEPT ![r] = normalize_topic(raw)]
    /\ Log(r, IF generative_model = None THEN <<>>
              ELSE <<ClassifyCall(raw)>>)
    /\ Goto(r, "status_update")
    /\ UNCHANGED <<event, user_query, thread_ts, thinking_message, reply_text,
                   sendq, sent, inflight, exc, generative_model, messages>>
    /\ UNCHANGED chunkVars

\* Lines 155-162: a document is selected; the placeholder names it and the
\* document is read.
UpdateReading(r) ==
    LET doc == selected_doc_info(topic[r])
        file == DOCUMENTS_INFO[doc].filename
        upd == Call("update", event[r].channel, None, thinking_message[r],
                    reading_text(file))
    IN  /\ pc[r] = "status_update"
        /\ doc # 0
        /\ \E ok \in BOOLEAN, readok \in BOOLEAN :
            IF ~ok
            THEN /\ Log(r, <<upd>>)
                 /\ Raise(r, "status_update_failed")
                 /\ Goto(r, "error_update")
                 /\ UNCHANGED messages
            ELSE /\ messages' = slack_update(messages, thinking_message[r],
                                             reading_text(file))
                 /\ Log(r, <<upd, ReadCall(file)>>)
                 /\ Goto(r, after_read(readok))
                 /\ IF readok THEN UNCHANGED exc ELSE Raise(r, "read_failed")
        /\ UNCHANGED <<event, user_query, thread_ts, thinking_message, topic,
                       reply_text, sendq, sent, inflight, generative_model>>
        /\ UNCHANGED chunkVars

\* Lines 182-186: no document is selected; the placeholder says so.
UpdateNoDoc(r) ==
    /\ pc[r] = "status_update"
    /\ selected_doc_info(topic[r]) = 0
    /\ Log(r, <<Call("update", event[r].channel, None, thinking_message[r], NODOC)>>)
    /\ \E ok \in BOOLEAN :
        IF ok
        THEN /\ messages' = slack_update(messages, thinking_message[r], NODOC)
             /\ Goto(r, "generate")
             /\ UNCHANGED exc
        ELSE /\ Raise(r, "status_update_failed")
             /\ Goto(r, "error_update")
             /\ UNCHANGED messages
    /\ UNCHANGED <<event, user_query, thread_ts, thinking_message, topic,
                   reply_text, sendq, sent, inflight, generative_model>>
    /\ UNCHANGED chunkVars

\* Lines 164-178 and 188-198: the answer is generated from the grounded or
\* the fallback prompt.
Generate(r, body) ==
    LET matched == selected_doc_info(topic[r]) # 0
    IN  /\ pc[r] = "generate"
        /\ body \in get_gemini_response(generative_model, ReplyBodies)
        /\ reply_text' = [reply_text EXCEPT ![r] = body]
        /\ Log(r, IF generative_model = None THEN <<>>
                  ELSE <<GenerateCall(answer_prompt(matched))>>)
        /\ Goto(r, delivering(matched))
        /\ UNCHANGED <<event, user_query, thread_ts, thinking_message, topic,
                       sendq, sent, inflight, exc, generative_model, messages>>
        /\ UNCHANGED chunkVars

\* Lines 179-180: the placeholder is deleted and send_long_message is entered.
Delete(r) ==
    /\ pc[r] = "delete"
    /\ Log(r, <<Call("delete", event[r].channel, None, thinking_message[r],
                     Msg("none", <<>>))>>)
    /\ \E ok \in BOOLEAN :
        IF ok
        THEN /\ messages' = slack_delete(messages, thinking_message[r])
             /\ sendq' = [sendq EXCEPT ![r] = post_texts(reply_text[r])]
             /\ Goto(r, "send")
             /\ UNCHANGED exc
        ELSE /\ Raise(r, "delete_failed")
             /\ Goto(r, "error_update")
             /\ UNCHANGED <<messages, sendq>>
    /\ UNCHANGED <<event, user_query, thread_ts, thinking_message, topic,
                   reply_text, sent, inflight, generative_model>>
    /\ UNCHANGED chunkVars

\* Lines 71 and 89: each chat_postMessage is awaited before the next one is
\* issued; a mutant that issues them without awaiting.
prev_send_not_awaited(r) == TRUE

prev_send_awaited(r) == inflight[r] = {}

\* Lines 71 and 89: the next chat_postMessage is issued.
SendIssue(r) ==
    /\ pc[r] = "send"
    /\ prev_send_awaited(r)
    /\ sent[r] < Len(sendq[r])
    /\ sent' = [sent EXCEPT ![r] = sent[r] + 1]
    /\ inflight' = [inflight EXCEPT ![r] = inflight[r] \cup {sent[r] + 1}]
    /\ Log(r, <<Call("post", event[r].channel, thread_ts[r], 0,
                     sendq[r][sent[r] + 1])>>)
    /\ UNCHANGED <<pc, event, user_query, thread_ts, thinking_message, topic,
                   reply_text, sendq, exc, generative_model, messages>>
    /\ UNCHANGED chunkVars

\* Lines 71-72 and 87-89: an issued chat_postMessage returns or raises.
SendReturn(r) ==
    /\ pc[r] = "send"
    /\ \E k \in inflight[r], ok \in BOOLEAN :
        /\ inflight' = [inflight EXCEPT ![r] = inflight[r] \ {k}]
        /\ IF ok
           THEN /\ messages' = slack_post(messages, r, event[r].channel,
                                          thread_ts[r], sendq[r][k])
                /\ Goto(r, IF sent[r] = Len(sendq[r]) /\ inflight[r] = {k}
                           THEN "done" ELSE "send")
                /\ UNCHANGED exc
           ELSE /\ Raise(r, "post_failed")
                /\ Goto(r, "error_update")
                /\ UNCHANGED messages
    /\ UNCHANGED <<event, user_query, thread_ts, thinking_message, topic,
                   reply_text, sendq, sent, generative_model, calls>>
    /\ UNCHANGED chunkVars

\* Line 200: on the fallback branch the answer replaces the placeholder text.
FinalUpdate(r) ==
    /\ pc[r] = "final_update"
    /\ Log(r, <<Call("update", event[r].channel, None, thinking_message[r],
                     plain_text(reply_text[r]))>>)
    /\ \E ok \in BOOLEAN :
        IF ok
        THEN /\ messages' = slack_update(messages, thinking_message[r],
                                         plain_text(reply_text[r]))
             /\ Goto(r, "done")
             /\ UNCHANGED exc
        ELSE /\ Raise(r, "final_update_failed")
             /\ Goto(r, "error_update")
             /\ UNCHANGED messages
    /\ UNCHANGED <<event, user_query, thread_ts, thinking_message, topic,
                   reply_text, sendq, sent, inflight, generative_model>>
    /\ UNCHANGED chunkVars

\* Lines 202-206: the except block updates the placeholder with the error;
\* the platform refuses the update of a deleted message, and an exception
\* of this call leaves handle_message.
ErrorUpdate(r) ==
    /\ pc[r] = "error_update"
    /\ Log(r, <<Call("update", event[r].channel, None, thinking_message[r],
                     error_text(exc[r]))>>)
    /\ \E ok \in BOOLEAN :
        IF ok /\ ~messages[thinking_message[r]].deleted
        THEN /\ messages' = slack_update(messages, thinking_message[r],
                                         error_text(exc[r]))
             /\ Goto(r, "done")
        ELSE /\ Goto(r, "raised")
             /\ UNCHANGED messages
    /\ UNCHANGED <<event, user_query, thread_ts, thinking_message, topic,
                   reply_text, sendq, sent, inflight, exc, generative_model>>
    /\ UNCHANGED chunkVars

Step(r) ==
    \/ Say(r)
    \/ UpdateReading(r)
    \/ UpdateNoDoc(r)
    \/ Delete(r)
    \/ SendIssue(r)
    \/ SendReturn(r)
    \/ FinalUpdate(r)
    \/ ErrorUpdate(r)

(***************************************************************************)
(* Specifications.                                                         *)
(***************************************************************************)
\* One request, every event and every outcome of every external call.
Init ==
    /\ ChunkOff
    /\ ReqInit
    /\ generative_model \in {"gemini-2.0-flash", None}

Next ==
    \/ \E ev \in Events("r1") : Receive("r1", ev)
    \/ \E raw \in RawTopics \cup {NO_KEY_TEXT, AI_ERROR_TEXT} : Classify("r1", raw)
    \/ \E body \in ReplyBodies \cup {NO_KEY_TEXT, AI_ERROR_TEXT} : Generate("r1", body)
    \/ Step("r1")

Spec == Init /\ [][Next]_vars

\* Two requests in flight at once.
ConcRawTopics == {<<"ze", "mi">>, <<"ippan", "chishiki">>}
ConcReplyBodies == {<<"x", FULLSTOP>>, <<"x", FULLSTOP, "x", NEWLINE>> \o Xs(limit)}

InitConc ==
    /\ ChunkOff
    /\ ReqInit
    /\ generative_model = "gemini-2.0-flash"

NextConc ==
    \E r \in Reqs :
        \/ \E ev \in ConcEvents(r) : Receive(r, ev)
        \/ \E raw \in ConcRawTopics : Classify(r, raw)
        \/ \E body \in ConcReplyBodies : Generate(r, body)
        \/ Step(r)

SpecConc == InitConc /\ [][NextConc]_vars

\* send_long_message on every text of at most MaxLen characters.
InitChunk ==
    /\ ChunkInit
    /\ ReqInit
    /\ generative_model = None

NextChunk ==
    \/ (ChunkEnter /\ UNCHANGED reqVars /\ UNCHANGED envVars)
    \/ (ChunkStep /\ UNCHANGED reqVars /\ UNCHANGED envVars)
    \/ (ChunkPost /\ UNCHANGED reqVars /\ UNCHANGED envVars)

SpecChunk == InitChunk /\ [][NextChunk]_vars

\* send_long_message runs its loop without an await in it (lines 73-85), so
\* a step that is possible is taken.
SpecChunkLive == InitChunk /\ [][NextChunk]_vars /\ WF_vars(NextChunk)

(***************************************************************************)
(* Claims about send_long_message (checked under SpecChunk).               *)
(***************************************************************************)
\* The 0-based position in text at which parts[k] starts.
StartOf(k) == Len(Concat(SubSeq(parts, 1, k - 1)))

\* C1: for every text longer than limit, the content slices of the parts,
\* concatenated in part order, are the text itself (nothing lost, duplicated
\* or reordered), the posted parts carry exactly these slices, and a part
\* split at a delimiter found by the search ends with that delimiter.  While
\* the loop runs the parts built so far are the text up to current_pos.
C1_PartsConcatenateToText ==
    /\ (cpc = "loop") =>
          Concat(parts) = SubSeq(text, 1, Min(current_pos, Len(text)))
    /\ (cpc = "done" /\ Len(text) > limit) =>
          /\ Concat(parts) = text
          /\ Concat(Bodies(posted)) = text
          /\ Len(posted) = Len(parts)
          /\ \A k \in 1..Len(parts) :
                LET start == StartOf(k)
                    f == found_pos(text, start)
                IN  /\ parts[k] # <<>>
                    /\ f > start =>
                          /\ text[f + 1] \in {FULLSTOP, NEWLINE}
                          /\ Len(parts[k]) = f - start + 1
                          /\ parts[k][Len(parts[k])] = text[f + 1]

\* C1 witness: a long text split into three parts or more, the first ending
\* with the full stop it was split at, the second with a newline.
C1_Witness ==
    /\ cpc = "done"
    /\ Len(text) > limit
    /\ Len(parts) >= 3
    /\ parts[1][Len(parts[1])] = FULLSTOP
    /\ parts[2][Len(parts[2])] = NEWLINE
    /\ Concat(parts) = text

\* C2: every part produced has a content slice of at most limit characters.
C2_PartsWithinLimit ==
    (cpc = "done") => \A k \in 1..Len(posted) : Len(posted[k].body) <= limit

\* C8: a text longer than limit and shorter than 2 * limit, without full stop
\* and newline among its first limit characters and with a full stop further
\* on, is cut at position limit and posted as exactly two parts, headed 1/2
\* and 2/2.
C8_Scenario ==
    /\ Len(text) > limit
    /\ Len(text) < 2 * limit
    /\ \A i \in 1..limit : text[i] \notin {FULLSTOP, NEWLINE}
    /\ \E i \in (limit + 1)..Len(text) : text[i] = FULLSTOP

C8_HardCutTwoParts ==
    (cpc = "done" /\ C8_Scenario) =>
        /\ split_pos(text, 0) = limit
        /\ Len(posted) = 2
        /\ posted[1].header = <<1, 2>>
        /\ posted[2].header = <<2, 2>>

(***************************************************************************)
(* Claims about handle_message (checked under Spec and SpecConc).          *)
(***************************************************************************)
\* The messages request r put on the platform, in arrival order; the first
\* one is the placeholder.
Posts(r) == SelectSeq(messages, LAMBDA m : m.req = r)
NewPosts(r) == IF Posts(r) = <<>> THEN <<>> ELSE Tail(Posts(r))
Texts_of(ms) == [i \in 1..Len(ms) |-> ms[i].text]
Placeholder(r) == messages[thinking_message[r]]
Matched(r) == \E i \in 1..Len(DOCUMENTS_INFO) : DOCUMENTS_INFO[i].keyword = topic[r]
LastCall(r) == calls[r][Len(calls[r])]
ErrorUpdateOf(r) ==
    [op |-> "update", channel |-> event[r].channel, thread |-> None,
     msg |-> thinking_message[r],
     text |-> [kind |-> "error", header |-> <<>>, body |-> <<exc[r]>>]]

C4_AlwaysSomeMessage ==
    \A r \in Reqs :
        pc[r] \in {"done", "raised"} =>
            \E i \in 1..Len(messages) :
                /\ messages[i].req = r
                /\ messages[i].thread_ts = thread_ts[r]
                /\ ~messages[i].deleted
                /\ messages[i].text.kind \in {"reply", "error"}

\* C5: when a document was selected and its read failed, the request ends
\* with the update of the placeholder to the error text that embeds the
\* read failure (shown on the platform unless that very call raises); no
\* grounded or fallback generation call was made, the placeholder was not
\* deleted and nothing else was posted.
C5_ReadFailureIsError ==
    \A r \in Reqs :
        (exc[r] = "read_failed" /\ pc[r] \in {"done", "raised"}) =>
            /\ Matched(r)
            /\ LastCall(r) = ErrorUpdateOf(r)
            /\ \A i \in 1..Len(calls[r]) :
                  /\ calls[r][i].op # "delete"
                  /\ calls[r][i].op = "generate" =>
                        calls[r][i].text.kind = "classification"
            /\ ~Placeholder(r).deleted
            /\ NewPosts(r) = <<>>
            /\ pc[r] = "done" => Placeholder(r).text = ErrorUpdateOf(r).text
            /\ pc[r] = "raised" => Placeholder(r).text.kind = "reading"

\* C5 witness: the read failed and the placeholder shows the error.
C5_Witness ==
    /\ pc["r1"] = "done"
    /\ exc["r1"] = "read_failed"
    /\ Placeholder("r1").text.kind = "error"
    /\ generative_model # None

\* C6: an event that carries the bot identifier is dropped without any
\* outbound call, whatever its kind, channel kind and text.
C6_BotEventsProduceNoCalls ==
    \A r \in Reqs :
        (pc[r] # "idle" /\ event[r].bot_id # None) =>
            /\ pc[r] = "returned"
            /\ calls[r] = <<>>
            /\ Posts(r) = <<>>

\* C6 witness: a mention with a query, authored by the bot, was dropped.
C6_Witness ==
    /\ pc["r1"] = "returned"
    /\ event["r1"].bot_id # None
    /\ event["r1"].type = "app_mention"
    /\ event["r1"].text = <<MENTION, SPACE, "q">>

\* C7: every message of an accepted request, the placeholder and every
\* answer part, is posted to the event's existing thread when it has one and
\* otherwise to the event's own message identifier, for direct messages and
\* mentions alike.
C7_RepliesAnchoredToThread ==
    \A r \in Reqs :
        pc[r] \notin {"idle", "returned"} =>
            LET anchor == IF event[r].thread_ts # None
                          THEN event[r].thread_ts ELSE event[r].ts
            IN  /\ \A i \in 1..Len(calls[r]) :
                      calls[r][i].op = "post" =>
                          /\ calls[r][i].thread = anchor
                          /\ calls[r][i].channel = event[r].channel
                /\ \A i \in 1..Len(Posts(r)) :
                      /\ Posts(r)[i].thread_ts = anchor
                      /\ Posts(r)[i].channel = event[r].channel

\* C7 witness: a direct message inside an existing thread got the
\* placeholder and three answer parts.
C7_Witness ==
    /\ pc["r1"] = "done"
    /\ event["r1"].type = "message"
    /\ event["r1"].thread_ts # None
    /\ Len(Posts("r1")) = 4

\* C9: within one request the parts reach the thread in plan order, and the
\* post of part k is in flight only when the posts of parts 1 .. k-1 have
\* completed, also with another request in flight.
C9_PartsPostedInOrder ==
    \A r \in Reqs :
        sendq[r] # <<>> =>
            LET new == NewPosts(r)
                posts == SelectSeq(calls[r], LAMBDA c : c.op = "post")
            IN  /\ Len(new) <= Len(sendq[r])
                /\ \A k \in 1..Len(new) : new[k].text = sendq[r][k]
                /\ \A k \in inflight[r] : Len(new) = k - 1
                /\ Len(posts) = sent[r] + 1
                /\ \A k \in 1..sent[r] : posts[k + 1].text = sendq[r][k]

\* C9 witness: two requests answered into the same thread with three parts
\* each, their parts interleaved on the platform.
C9_Witness ==
    /\ pc["r1"] = "done"
    /\ pc["r2"] = "done"
    /\ thread_ts["r1"] = thread_ts["r2"]
    /\ Len(NewPosts("r1")) = 3
    /\ Len(NewPosts("r2")) = 3
    /\ \E i, j, k \in 1..Len(messages) :
          /\ i < j
          /\ j < k
          /\ messages[i].req = "r1" /\ messages[i].text.header = <<1, 3>>
          /\ messages[j].req = "r2" /\ messages[j].text.header # <<>>
          /\ messages[k].req = "r1" /\ messages[k].text.header = <<2, 3>>

InTryExceptions ==
    {"status_update_failed", "read_failed", "delete_failed", "post_failed",
     "final_update_failed"}

C11_ShortTextOnePart ==
    (cpc = "done" /\ Len(text) <= limit) =>
        /\ Len(posted) = 1
        /\ posted[1].body = text
        /\ posted[1].header = <<>>
        /\ parts = <<>>
        /\ current_pos = 0

\* C11 witness: a text of exactly limit characters was posted as one message.
C11_Witness ==
    /\ cpc = "done"
    /\ Len(text) = limit
    /\ Len(posted) = 1
    /\ posted[1].body = text
\* C12: send_long_message terminates on every text: each loop iteration
\* moves current_pos forward by at least one character, and the function
\* reaches its end.
C12_ChunkTerminates ==
    /\ [][(cpc = "loop" /\ parts' # parts) => current_pos' > current_pos]_vars
    /\ <>(cpc = "done")

\* C12 witness: the loop ended after three iterations or more on a text
\* without any delimiter in its first window.
C12_Witness ==
    /\ cpc = "done"
    /\ Len(text) > limit
    /\ Len(parts) >= 2
    /\ found_pos(text, 0) = -1
    /\ current_pos >= Len(text)
\* The requests that have passed the classification.
Classified(r) ==
    pc[r] \in {"status_update", "generate", "delete", "send", "final_update",
               "error_update", "done"}
       \/ (pc[r] = "raised" /\ exc[r] # "say_failed")
CallsOf(r, op) == SelectSeq(calls[r], LAMBDA c : c.op = op)

\* C13: on the fallback branch (the normalized answer of the classifier
\* equals no catalog keyword) no document is read, the first call after the
\* classification is the update of the placeholder to the no-document text,
\* the one answer generation uses the fallback prompt, and the answer
\* delivered is the text that generation returned.
C13_FallbackReadsNoDocument ==
    \A r \in Reqs :
        (Classified(r) /\ ~Matched(r)) =>
            LET upd == CallsOf(r, "update")
                gen == SelectSeq(calls[r], LAMBDA c :
                          c.op = "generate" /\ c.text.kind # "classification")
            IN  /\ CallsOf(r, "read") = <<>>
                /\ CallsOf(r, "delete") = <<>>
                /\ pc[r] # "status_update" =>
                      /\ upd # <<>>
                      /\ upd[1].msg = thinking_message[r]
                      /\ upd[1].text = [kind |-> "nodoc", header |-> <<>>,
                                        body |-> <<>>]
                /\ \A i \in 1..Len(gen) : gen[i].text.kind = "fallback"
                /\ Len(gen) <= 1
                /\ (pc[r] \in {"final_update", "done"} /\ generative_model # None
                       /\ exc[r] = None) => Len(gen) = 1
                /\ (pc[r] = "done" /\ exc[r] = None) =>
                      /\ Placeholder(r).text.kind = "reply"
                      /\ Placeholder(r).text.body = reply_text[r]

\* C13 witness: the classifier answered with the general-knowledge sentinel
\* and the fallback answer was delivered.
C13_Witness ==
    /\ pc["r1"] = "done"
    /\ exc["r1"] = None
    /\ topic["r1"] = <<"ippan", "chishiki">>
    /\ generative_model # None
    /\ Placeholder("r1").text.kind = "reply"
\* C14: an event that is neither a direct message nor a mention is dropped
\* without any outbound call; every request that makes a call comes from a
\* direct-message event or a mention event.
C14_OnlyDirectMessagesAndMentions ==
    \A r \in Reqs :
        /\ ( /\ pc[r] # "idle"
             /\ event[r].channel_type # "im"
             /\ event[r].type # "app_mention" ) =>
                /\ pc[r] = "returned"
                /\ calls[r] = <<>>
                /\ Posts(r) = <<>>
        /\ (calls[r] # <<>> \/ Posts(r) # <<>>) =>
                (event[r].channel_type = "im" \/ event[r].type = "app_mention")

\* C14 witness: a channel message with a query, not authored by the bot and
\* not a mention, was dropped.
C14_Witness ==
    /\ pc["r1"] = "returned"
    /\ event["r1"].type = "message"
    /\ event["r1"].channel_type = "channel"
    /\ event["r1"].bot_id = None
    /\ event["r1"].text = <<"q">>
\* The classification calls of request r, each recorded with its answer.
ClassificationCalls(r) ==
    SelectSeq(calls[r], LAMBDA c :
        c.op = "generate" /\ c.text.kind = "classification")

\* The normalization as C15 words it: quote characters, asterisks and
\* whitespace around the answer and a full stop at its end are stripped,
\* whatever their order; nothing inside the answer is touched.
Markers == {"'", "\"", "*"}

RECURSIVE claimed_label(_)
claimed_label(s) ==
    IF s = <<>> THEN s
    ELSE IF Head(s) \in Markers \cup Whitespace THEN claimed_label(Tail(s))
    ELSE IF s[Len(s)] \in Markers \cup Whitespace \cup {FULLSTOP}
         THEN claimed_label(SubSeq(s, 1, Len(s) - 1))
    ELSE s

\* C15: the label is the answer of the model with the surrounding quote
\* characters, asterisks, whitespace and the trailing full stop stripped,
\* and the request is Matched exactly when that label equals a catalog
\* keyword, Fallback for every other answer.
C15_LabelIsStrippedAnswer ==
    \A r \in Reqs :
        (Classified(r) /\ ClassificationCalls(r) # <<>>) =>
            LET label == claimed_label(ClassificationCalls(r)[1].text.body)
            IN  Matched(r) <=>
                    \E i \in 1..Len(DOCUMENTS_INFO) :
                        DOCUMENTS_INFO[i].keyword = label

\* C16: a failure of the generative call raises nothing.  A failed
\* classification call returns the explanatory text, which equals no
\* keyword: the request goes on on the fallback branch, reads no document
\* and is in no error state because of it.  The classification call is made
\* once per query, never repeated.
C16_ClassificationFailureFallsBack ==
    \A r \in Reqs :
        LET cls == ClassificationCalls(r)
        IN  /\ Len(cls) <= 1
            /\ (Classified(r) /\ generative_model # None) => Len(cls) = 1
            /\ (Classified(r) /\ cls # <<>>
                    /\ cls[1].text.body = <<"AI_ERROR", FULLSTOP, "(e)">>) =>
                  /\ ~Matched(r)
                  /\ CallsOf(r, "read") = <<>>
                  /\ CallsOf(r, "delete") = <<>>
                  /\ pc[r] \in {"status_update", "generate", "final_update"} =>
                        exc[r] = None
                  /\ exc[r] \in {None, "status_update_failed",
                                 "final_update_failed"}
                  /\ \A i \in 1..Len(calls[r]) :
                        calls[r][i].op = "update" =>
                            calls[r][i].text.kind \in {"nodoc", "reply", "error"}

\* C16 witness: the classification call failed and the request delivered a
\* fallback answer.
C16_Witness ==
    /\ pc["r1"] = "done"
    /\ exc["r1"] = None
    /\ ClassificationCalls("r1") # <<>>
    /\ ClassificationCalls("r1")[1].text.body = AI_ERROR_TEXT
    /\ Placeholder("r1").text.kind = "reply"
\* C17: the posted texts carry the header exactly when there is more than
\* one of them: a single posted text is the input itself without header,
\* and of n > 1 posted texts the k-th is headed k/n.
C17_HeaderIffSeveralParts ==
    (cpc = "done") =>
        /\ Len(posted) = 1 =>
              /\ posted[1].header = <<>>
              /\ posted[1].body = text
        /\ Len(posted) > 1 =>
              \A k \in 1..Len(posted) : posted[k].header = <<k, Len(posted)>>

\* The window of one iteration that starts at position cp: the positions
\* cp .. cp + limit - 1 that lie in the text, and the positions in it that
\* hold character ch.
Window(cp) == cp..(Min(cp + limit, Len(text)) - 1)
InWindow(cp, ch) == {i \in Window(cp) : text[i + 1] = ch}

\* The split point C18 describes for the iteration that starts at cp.
ClaimedSplit(cp) ==
    LET stops == InWindow(cp, FULLSTOP)
        lines == InWindow(cp, NEWLINE)
    IN  IF stops # {}
        THEN IF Max(stops) > cp THEN Max(stops) ELSE cp + limit
        ELSE IF lines # {} /\ Max(lines) > cp THEN Max(lines) ELSE cp + limit

\* C18: every part ends at the last full stop of its window when that lies
\* strictly after the start of the part; at the last newline of the window
\* only when the window holds no full stop at all; and otherwise, also when
\* the position found is the start itself, at start + limit.
C18_SplitPointChoice ==
    /\ \A k \in 1..Len(parts) :
          Len(parts[k]) =
              Min(ClaimedSplit(StartOf(k)) + 1, Len(text)) - StartOf(k)
    /\ (cpc = "loop" /\ parts # <<>>) =>
          current_pos = ClaimedSplit(StartOf(Len(parts))) + 1

\* C18 witness: the first window holds a full stop and, after it, a newline;
\* the part ends at the full stop.
C18_Witness ==
    /\ cpc = "done"
    /\ Len(text) > limit
    /\ InWindow(0, FULLSTOP) # {}
    /\ InWindow(0, NEWLINE) # {}
    /\ Max(InWindow(0, NEWLINE)) > Max(InWindow(0, FULLSTOP))
    /\ Max(InWindow(0, FULLSTOP)) > 0
    /\ Len(parts[1]) = Max(InWindow(0, FULLSTOP)) + 1

\* C19: the placeholder is deleted at most once, and after a delete call
\* for it no update call and no delete call for it is issued.
C19_NothingAfterDelete ==
    \A r \in Reqs :
        \A i \in 1..Len(calls[r]) :
            (calls[r][i].op = "delete" /\ calls[r][i].msg = thinking_message[r]) =>
                \A j \in (i + 1)..Len(calls[r]) :
                    ~ ( /\ calls[r][j].op \in {"update", "delete"}
                        /\ calls[r][j].msg = thinking_message[r] )

\* C20: an event of an accepted origin, not authored by the bot, whose text
\* holds nothing but whitespace (and, for a mention event, the bot mention)
\* is dropped without any outbound call.
C20_EmptyQueryProducesNoCalls ==
    \A r \in Reqs :
        ( /\ pc[r] # "idle"
          /\ \A i \in 1..Len(event[r].text) :
                event[r].text[i] \in
                    (IF event[r].type = "app_mention"
                     THEN Whitespace \cup {MENTION} ELSE Whitespace) ) =>
            /\ pc[r] = "returned"
            /\ calls[r] = <<>>
            /\ Posts(r) = <<>>

\* C20 witness: a mention that holds only the bot mention and a space, from
\* a user, was dropped.
C20_Witness ==
    /\ pc["r1"] = "returned"
    /\ event["r1"].bot_id = None
    /\ event["r1"].type = "app_mention"
    /\ event["r1"].text = <<MENTION, SPACE>>
====
